---- MODULE Spec2Model ----
(***************************************************************************)
(* Model of the numeric core of the two demos:                             *)
(*   js/clt-demo.js        cltDemo:       registry, simulation, ECDF, erf   *)
(*   js/bivariate-demo.js  bivariateDemo: grid, marginals, conditionals,    *)
(*                                        highest-density-region threshold  *)
(*                                                                         *)
(* Numbers.  JavaScript numbers are modelled by exact values:               *)
(*   - a rational is a pair <<n, d>>, d > 0, in lowest terms;               *)
(*   - Math.sqrt, Math.log and Math.exp of a rational are kept as symbolic  *)
(*     terms (coef * sqrt(rad), rat - ln(lg), a sum of c * e^q), for which  *)
(*     equality is structural.  The rendering calls into d3 are not         *)
(*     modelled; the values handed to them are.                            *)
(***************************************************************************)
EXTENDS Integers, Sequences, FiniteSets, Bags

VARIABLES
  \* ---- cltDemo.createVisualization (js/clt-demo.js) ----
  cltPc,              \* "idle" | "loop" | "returned" | "threw"
  options,            \* the options object of the running / last call
  dist,               \* distributions[distName], or Undefined
  simIndex,           \* i of the simulation loop
  standardizedMeans,  \* the array of z values
  zDivisions,         \* the (std, n) pairs line 84 has divided by (history)
  ecdfData,           \* the ECDF step sequence of the last rendered call
  cdfOverlay,         \* the normal-CDF overlay points of the last rendered call
  \* ---- bivariateDemo (js/bivariate-demo.js) ----
  xgrid, ygrid, Z, marginal_x, marginal_y,   \* module-level arrays
  bivArgs,            \* arguments of the last createVisualization call
  conditionals,       \* result of the last getConditionalDistributions call
  x_data, y_data,     \* the curves chosen for the two side panels
  bivCalls,           \* number of calls made so far (capped at MaxCalls)
  \* ---- the HDR block of bivariateDemo.createVisualization ----
  hdrPc,              \* "off" | "ready" | "done"
  hdr_threshold

vars == <<cltPc, options, dist, simIndex, standardizedMeans, zDivisions,
          ecdfData, cdfOverlay,
          xgrid, ygrid, Z, marginal_x, marginal_y, bivArgs, conditionals,
          x_data, y_data, bivCalls, hdrPc, hdr_threshold>>

cltVars == <<cltPc, options, dist, simIndex, standardizedMeans, zDivisions,
             ecdfData, cdfOverlay>>
moduleArrays == <<xgrid, ygrid, Z, marginal_x, marginal_y>>
bivCallVars == <<bivArgs, conditionals, x_data, y_data, bivCalls>>
hdrVars == <<hdrPc, hdr_threshold>>

(***************************************************************************)
(* Bounds of the model.                                                    *)
(***************************************************************************)
MaxSampleSize == 2     \* sampleSize ranges over 0..MaxSampleSize
MaxSimulations == 2    \* numSimulations ranges over 1..MaxSimulations
RandomDen == 1         \* Math.random() returns k/RandomDen, or a sampler cut point
GridDen == 2           \* the grid step is 1/GridDen (0.05 = 1/20 in the source)
QueryDen == 3          \* query points lie 1/QueryDen either side of 0
MaxCalls == 2          \* bivCalls stops counting here
HdrRows == 2           \* rows of the matrix given to the HDR block
HdrCols == 2           \* columns of the matrix given to the HDR block
HeavyCell == 150       \* the large cell value of those matrices

(***************************************************************************)
(* Exact rational arithmetic (the +, -, *, /, < of the source).            *)
(***************************************************************************)
Abs(x) == IF x < 0 THEN -x ELSE x

\* Euclid's algorithm, as a function so that its arguments are values.
GCDF[a \in Nat, b \in Nat] == IF b = 0 THEN a ELSE GCDF[b, a % b]
GCD(a, b) == GCDF[a, b]

Rat(n, d) ==
  LET s == IF d < 0 THEN -1 ELSE 1
      g == GCD(Abs(n), Abs(d))
  IN  <<(s * n) \div g, (s * d) \div g>>

Zero == <<0, 1>>
One == <<1, 1>>

RNeg(a) == <<-a[1], a[2]>>
RAbs(a) == <<Abs(a[1]), a[2]>>
RAdd(a, b) ==
  LET g == GCD(a[2], b[2])
  IN  Rat(a[1] * (b[2] \div g) + b[1] * (a[2] \div g), (a[2] \div g) * b[2])
RSub(a, b) == RAdd(a, RNeg(b))
RMul(a, b) ==
  LET g1 == GCD(Abs(a[1]), b[2])
      g2 == GCD(Abs(b[1]), a[2])
  IN  Rat((a[1] \div g1) * (b[1] \div g2), (a[2] \div g2) * (b[2] \div g1))
RDiv(a, b) == RMul(a, Rat(b[2], b[1]))
RLess(a, b) == a[1] * b[2] < b[1] * a[2]
RLeq(a, b) == a[1] * b[2] <= b[1] * a[2]

(***************************************************************************)
(* Math.sqrt: coef * sqrt(rad), both rational.                             *)
(***************************************************************************)
MathSqrt(r) == [coef |-> One, rad |-> r]
OfRat(r) == [coef |-> r, rad |-> One]
\* 1 / (c * sqrt(r)) = (1 / (c * r)) * sqrt(r)
SurdInv(s) == [coef |-> RDiv(One, RMul(s.coef, s.rad)), rad |-> s.rad]
SurdSquare(s) == RMul(RMul(s.coef, s.coef), s.rad)
SurdPositive(s) == RLess(Zero, s.coef) /\ RLess(Zero, s.rad)

(***************************************************************************)
(* normal.erf / normal.cdf, clt-demo.js 8-27.                              *)
(***************************************************************************)
a1 == Rat(254829592, 1000000000)
a2 == Rat(-284496736, 1000000000)
a3 == Rat(1421413741, 1000000000)
a4 == Rat(-1453152027, 1000000000)
a5 == Rat(1061405429, 1000000000)
erf_p == Rat(3275911, 10000000)

\* Math.exp at a rational point is rational only at 0.
MathExp(v) == CASE v = Zero -> One

\* x / Math.sqrt(2) is rational only at 0.
DivSqrt2(x) == CASE x = Zero -> Zero

normal_erf_no_a1(x) ==
  LET sign == IF RLeq(Zero, x) THEN One ELSE RNeg(One)
      ax == RAbs(x)
      t == RDiv(One, RAdd(One, RMul(erf_p, ax)))
      poly == RMul(RAdd(RMul(RAdd(RMul(RAdd(RMul(a5, t), a4), t), a3), t), a2), t)
      y == RSub(One, RMul(RMul(poly, t), MathExp(RNeg(RMul(ax, ax)))))
  IN  RMul(sign, y)

normal_erf(x) ==
  LET sign == IF RLeq(Zero, x) THEN One ELSE RNeg(One)
      ax == RAbs(x)
      t == RDiv(One, RAdd(One, RMul(erf_p, ax)))
      poly == RAdd(RMul(RAdd(RMul(RAdd(RMul(RAdd(RMul(a5, t), a4), t), a3), t), a2), t), a1)
      y == RSub(One, RMul(RMul(poly, t), MathExp(RNeg(RMul(ax, ax)))))
  IN  RMul(sign, y)

normal_cdf(x) == RMul(Rat(1, 2), RAdd(One, normal_erf(DivSqrt2(x))))

(***************************************************************************)
(* Math.log: a sample value or a sum of samples is rat - ln(lg).           *)
(* Within one distribution either lg = 1 throughout (Uniform and the       *)
(* discrete laws) or rat = 0 throughout (Exponential).                     *)
(***************************************************************************)
Plain(r) == [rat |-> r, lg |-> One]
NegLog(r) == [rat |-> Zero, lg |-> r]
LAdd(a, b) == [rat |-> RAdd(a.rat, b.rat), lg |-> RMul(a.lg, b.lg)]
LLess(a, b) ==
  CASE a.lg = b.lg -> RLess(a.rat, b.rat)
    [] a.rat = b.rat -> RLess(b.lg, a.lg)

RECURSIVE LSum(_)
LSum(s) == IF s = <<>> THEN Plain(Zero) ELSE LAdd(LSum(SubSeq(s, 1, Len(s) - 1)), s[Len(s)])

(***************************************************************************)
(* The distribution registry, clt-demo.js 29-61.                           *)
(***************************************************************************)
skewed_p1 == Rat(7, 10)
skewed_p2 == Rat(2, 10)
skewed_mean ==
  RAdd(RAdd(RMul(Rat(0, 1), skewed_p1), RMul(Rat(1, 1), skewed_p2)),
       RMul(Rat(10, 1), RSub(RSub(One, skewed_p1), skewed_p2)))
skewed_mean_sq_unsquared ==
  RAdd(RAdd(RMul(Rat(0, 1), skewed_p1), RMul(Rat(1, 1), skewed_p2)),
       RMul(Rat(10, 1), RSub(RSub(One, skewed_p1), skewed_p2)))
skewed_mean_sq ==
  RAdd(RAdd(RMul(Rat(0, 1), skewed_p1), RMul(Rat(1, 1), skewed_p2)),
       RMul(Rat(100, 1), RSub(RSub(One, skewed_p1), skewed_p2)))
skewed_var == RSub(skewed_mean_sq, RMul(skewed_mean, skewed_mean))

DistNames == {"Uniform", "Exponential", "Bernoulli", "Skewed Discrete"}

\* The random() of an entry: the identity on Math.random(), its inverse
\* transform -log(1 - u), or a cascade of `u < below ? value` tests.
distributions ==
  [name \in DistNames |->
     CASE name = "Uniform" ->
            [defined |-> TRUE, mean |-> Rat(1, 2),
             std |-> SurdInv(MathSqrt(Rat(12, 1))),
             random |-> [kind |-> "identity"]]
       [] name = "Exponential" ->
            [defined |-> TRUE, mean |-> Rat(1, 1), std |-> OfRat(Rat(1, 1)),
             random |-> [kind |-> "neglog1m"]]
       [] name = "Bernoulli" ->
            [defined |-> TRUE, mean |-> Rat(1, 2), std |-> OfRat(Rat(1, 2)),
             random |-> [kind |-> "cascade",
                         cuts |-> <<[below |-> Rat(1, 2), value |-> Rat(1, 1)]>>,
                         otherwise |-> Rat(0, 1)]]
       [] name = "Skewed Discrete" ->
            [defined |-> TRUE, mean |-> skewed_mean, std |-> MathSqrt(skewed_var),
             random |-> [kind |-> "cascade",
                         cuts |-> <<[below |-> skewed_p1, value |-> Rat(0, 1)],
                                    [below |-> RAdd(skewed_p1, skewed_p2),
                                     value |-> Rat(1, 1)]>>,
                         otherwise |-> Rat(10, 1)]]]

\* distributions[distName] of an object literal: undefined for any other name.
Undefined == [defined |-> FALSE]
Lookup(name) == IF name \in DistNames THEN distributions[name] ELSE Undefined

RECURSIVE Cascade(_, _, _)
Cascade(cuts, otherwise, u) ==
  IF cuts = <<>> THEN otherwise
  ELSE IF RLess(u, cuts[1].below) THEN cuts[1].value
  ELSE Cascade(Tail(cuts), otherwise, u)

\* d.random() when Math.random() returns u.
random(d, u) ==
  CASE d.random.kind = "identity" -> Plain(u)
    [] d.random.kind = "neglog1m" -> NegLog(RSub(One, u))
    [] d.random.kind = "cascade" -> Plain(Cascade(d.random.cuts, d.random.otherwise, u))

\* The law of a cascade when Math.random() is uniform on [0, 1): the value
\* of cut k is returned on [largest earlier cut, cut k), the last value on
\* the rest of [0, 1).
RMax(a, b) == IF RLess(a, b) THEN b ELSE a
RMin(a, b) == IF RLess(a, b) THEN a ELSE b
RECURSIVE CascadeLaw(_, _, _)
CascadeLaw(cuts, otherwise, lo) ==
  IF cuts = <<>> THEN <<[lo |-> lo, hi |-> One, value |-> otherwise]>>
  ELSE LET hi == RMax(lo, RMin(cuts[1].below, One))
       IN  <<[lo |-> lo, hi |-> hi, value |-> cuts[1].value]>>
             \o CascadeLaw(Tail(cuts), otherwise, hi)
ImpliedLaw(d) == CascadeLaw(d.random.cuts, d.random.otherwise, Zero)

\* Math.random(): a value of [0, 1).  The cut points of the samplers are
\* among the values drawn, so every outcome of every sampler occurs.
CutPoints ==
  UNION {{distributions[n].random.cuts[k].below :
            k \in 1..Len(distributions[n].random.cuts)} :
         n \in {m \in DistNames : distributions[m].random.kind = "cascade"}}
RandomValues ==
  {Rat(k, RandomDen) : k \in 0..(RandomDen - 1)} \cup {c \in CutPoints : RLess(c, One)}

(***************************************************************************)
(* cltDemo.createVisualization, clt-demo.js 64-211.                        *)
(***************************************************************************)
NoName == "<absent>"
CallNames == DistNames \cup {"Gaussian", NoName}

\* The destructuring of lines 65-69 (only distName may be absent here).
distName == IF options.distName = NoName THEN "Uniform" ELSE options.distName
sampleSize == options.sampleSize
numSimulations == options.numSimulations

\* z of line 84, kept as the expression (sum/n - mean) / (std / sqrt(n)).
Standardize(sum, d, n) == [sum |-> sum, sampleSize |-> n, mean |-> d.mean, std |-> d.std]

\* d3.ascending on two z of one call: n, mean and std > 0 are shared, so the
\* order is the order of the sums.
zLess(a, b) ==
  CASE a.sampleSize = b.sampleSize /\ a.mean = b.mean /\ a.std = b.std -> LLess(a.sum, b.sum)

RECURSIVE InsertAscending(_, _)
InsertAscending(s, v) ==
  IF s = <<>> THEN <<v>>
  ELSE IF zLess(v, s[1]) THEN <<v>> \o s
  ELSE <<s[1]>> \o InsertAscending(Tail(s), v)

RECURSIVE SortAscending(_)
\* standardizedMeans.slice().sort(d3.ascending)
SortAscending(s) ==
  IF s = <<>> THEN <<>>
  ELSE InsertAscending(SortAscending(SubSeq(s, 1, Len(s) - 1)), s[Len(s)])

\* The two points pushed by iteration i (0-based) of the loop of lines 168-171.
ecdfUpper_sameAsLower(i, len) == Rat(i, len)
ecdfUpper(i, len) == Rat(i + 1, len)

RECURSIVE ecdfLoop(_, _)
ecdfLoop(s, i) ==
  IF ~(i < Len(s)) THEN <<>>
  ELSE <<[x |-> s[i + 1], y |-> Rat(i, Len(s))],
         [x |-> s[i + 1], y |-> ecdfUpper(i, Len(s))]>> \o ecdfLoop(s, i + 1)

ecdfOf(sortedMeans) ==
  IF Len(sortedMeans) > 0
  THEN <<[x |-> sortedMeans[1], y |-> Zero]>> \o ecdfLoop(sortedMeans, 0)
  ELSE <<>>

\* xScale.ticks(100) over [-4, 4]; the tick 0 is the one kept.
OverlayTicks == {Zero}

cltCall ==
  /\ cltPc \in {"idle", "returned", "threw"}
  /\ \E name \in CallNames, n \in 0..MaxSampleSize, m \in 1..MaxSimulations :
       /\ options' = [distName |-> name, sampleSize |-> n, numSimulations |-> m]
       /\ dist' = Lookup(IF name = NoName THEN "Uniform" ELSE name)
  /\ standardizedMeans' = <<>>
  /\ simIndex' = 0
  /\ zDivisions' = {}
  /\ ecdfData' = <<>>
  /\ cdfOverlay' = {}
  /\ cltPc' = "loop"
  /\ UNCHANGED <<moduleArrays, bivCallVars, hdrVars>>

\* The guard of line 75.
sizeGuard_nonNegative == sampleSize >= 0
sizeGuard == sampleSize > 0

InLoop == cltPc = "loop" /\ sizeGuard /\ simIndex < numSimulations

\* The guard of line 83.
stdGuard(d) == SurdPositive(d.std)

\* One iteration of the loop of lines 76-87.
cltSimulate ==
  /\ InLoop
  /\ dist.defined
  /\ \E draws \in [1..sampleSize -> RandomValues] :
       LET sum == LSum([j \in 1..sampleSize |-> random(dist, draws[j])])
       IN  IF stdGuard(dist)
           THEN /\ standardizedMeans' =
                     Append(standardizedMeans, Standardize(sum, dist, sampleSize))
                /\ zDivisions' =
                     zDivisions \cup {[std |-> dist.std, sampleSize |-> sampleSize]}
           ELSE UNCHANGED <<standardizedMeans, zDivisions>>
  /\ simIndex' = simIndex + 1
  /\ UNCHANGED <<cltPc, options, dist, ecdfData, cdfOverlay>>
  /\ UNCHANGED <<moduleArrays, bivCallVars, hdrVars>>

\* dist.random() of line 79 with dist undefined: a TypeError leaves the call.
cltTypeError ==
  /\ InLoop
  /\ ~dist.defined
  /\ cltPc' = "threw"
  /\ UNCHANGED <<options, dist, simIndex, standardizedMeans, zDivisions,
                 ecdfData, cdfOverlay>>
  /\ UNCHANGED <<moduleArrays, bivCallVars, hdrVars>>

\* Lines 90-210 once the simulation is over: the ECDF and the normal overlay.
cltRender ==
  /\ cltPc = "loop"
  /\ ~(sizeGuard /\ simIndex < numSimulations)
  /\ ecdfData' = ecdfOf(SortAscending(standardizedMeans))
  /\ cdfOverlay' = {[x |-> t, y |-> normal_cdf(t)] : t \in OverlayTicks}
  /\ cltPc' = "returned"
  /\ UNCHANGED <<options, dist, simIndex, standardizedMeans, zDivisions>>
  /\ UNCHANGED <<moduleArrays, bivCallVars, hdrVars>>

NextClt == cltCall \/ cltSimulate \/ cltTypeError \/ cltRender

(***************************************************************************)
(* Coordinates and Math.exp in bivariate-demo.js.                          *)
(* A coordinate is an integer number of units of 1/Res.  f(x, y) is then   *)
(* an integer number of units of 1/Res^4, and Math.exp(f) is the term e^f. *)
(* A value is a finite sum of such terms over a positive integer:          *)
(*   [terms |-> a bag of exponents, den |-> d]  is  (SUM of e^q) / d.      *)
(* Distinct e^q are linearly independent over the rationals, so two values *)
(* are equal exactly when their bags agree once brought to one divisor.    *)
(***************************************************************************)
Res == GridDen * QueryDen

BagTimes(b, k) == [q \in {e \in DOMAIN b : b[e] * k > 0} |-> b[q] * k]

VZero == [terms |-> EmptyBag, den |-> 1]
VExp(q) == [terms |-> SetToBag({q}), den |-> 1]
VAdd(a, b) ==
  IF a.den = b.den
  THEN [terms |-> a.terms (+) b.terms, den |-> a.den]
  ELSE [terms |-> BagTimes(a.terms, b.den) (+) BagTimes(b.terms, a.den),
        den |-> a.den * b.den]
\* v * step, the step a number of units of 1/Res
VTimes(a, step) == [terms |-> BagTimes(a.terms, step), den |-> a.den * Res]
VEq(a, b) == BagTimes(a.terms, b.den) = BagTimes(b.terms, a.den)
VPositive(a) == a.den > 0 /\ DOMAIN a.terms # {} /\ \A q \in DOMAIN a.terms : a.terms[q] > 0

RECURSIVE VSum(_)
\* array.reduce((a, b) => a + b, 0), and the `sum += ...` loops
VSum(s) == IF Len(s) = 0 THEN VZero ELSE VAdd(VSum(SubSeq(s, 1, Len(s) - 1)), s[Len(s)])

\* v / w, kept as the quotient; quotients by one divisor add up their dividends.
VDiv(v, w) == [num |-> v, den |-> w]
QTimes(a, step) == [num |-> VTimes(a.num, step), den |-> a.den]
QAdd(a, b) == CASE VEq(a.den, b.den) -> [num |-> VAdd(a.num, b.num), den |-> a.den]
QIsOne(a) == VEq(a.num, a.den) /\ VPositive(a.den)

RECURSIVE QSum(_)
QSum(s) == IF Len(s) = 1 THEN s[1] ELSE QAdd(QSum(SubSeq(s, 1, Len(s) - 1)), s[Len(s)])

(***************************************************************************)
(* bivariateDemo: module creation, bivariate-demo.js 7-42.                 *)
(***************************************************************************)
\* f(x, y) = -10 * (y - x*x)^2 - y*y, for x and y in units of 1/Res:
\*   y/Res - (x/Res)^2 = (y*Res - x*x) / Res^2.
f(x, y) ==
  LET d == y * Res - x * x
  IN  -10 * (d * d) - (y * y) * (Res * Res)

\* d3.range(start, stop, step): ceil((stop - start) / step) values.
d3_range(start, stop, step) ==
  LET n == -((-(stop - start)) \div step)
  IN  [i \in 1..(IF n > 0 THEN n ELSE 0) |-> start + (i - 1) * step]

Reverse(s) == [i \in 1..Len(s) |-> s[Len(s) + 1 - i]]

\* The step of both grids (0.05 in the source); each stop is the last grid
\* value plus one step (2.05 and 4.05).
GridStep == Res \div GridDen
xgrid0 == d3_range(-2 * Res, 2 * Res + GridStep, GridStep)
ygrid0 == d3_range(-2 * Res, 4 * Res + GridStep, GridStep)

dx == xgrid[2] - xgrid[1]
dy == ygrid[2] - ygrid[1]

\* ygrid.slice().reverse().map(y => xgrid.map(x => Math.exp(f(x, y))))
ZOf(xs, ys) ==
  LET rows == Reverse(ys)
  IN  [r \in 1..Len(rows) |-> [c \in 1..Len(xs) |-> VExp(f(xs[c], rows[r]))]]

\* The bound of the loop of line 26.
marginal_x_rows_xlength(xs, ys) == Len(xs)
marginal_x_rows(xs, ys) == Len(ys)

marginal_x_of(zs, xs, ys, step) ==
  [i \in 1..Len(xs) |->
     VTimes(VSum([j \in 1..marginal_x_rows(xs, ys) |-> zs[j][i]]), step)]

\* z_row_index of line 36 (j and the result 0-based, as in the source).
z_row_index_same(j, ylength) == j
z_row_index(j, ylength) == ylength - 1 - j

marginal_y_of(zs, xs, ys, step) ==
  [j \in 1..Len(ys) |->
     VTimes(VSum([i \in 1..Len(xs) |-> zs[z_row_index(j - 1, Len(ys)) + 1][i]]), step)]

(***************************************************************************)
(* getConditionalDistributions, bivariate-demo.js 45-60.                   *)
(***************************************************************************)
\* sum_x of line 48 and sum_y of line 53.
normaliser_no_step(values, step) == VSum(values)
normaliser(values, step) == VTimes(VSum(values), step)

getConditionalDistributions(x_value, y_value) ==
  LET conditional_x_given_y == [i \in 1..Len(xgrid) |-> VExp(f(xgrid[i], y_value))]
      sum_x == normaliser(conditional_x_given_y, dx)
      conditional_y_given_x == [j \in 1..Len(ygrid) |-> VExp(f(x_value, ygrid[j]))]
      sum_y == normaliser(conditional_y_given_x, dy)
  IN  [x_given_y |-> [i \in 1..Len(xgrid) |-> VDiv(conditional_x_given_y[i], sum_x)],
       y_given_x |-> [j \in 1..Len(ygrid) |-> VDiv(conditional_y_given_x[j], sum_y)]]

(***************************************************************************)
(* bivariateDemo.createVisualization, bivariate-demo.js 63-338.            *)
(***************************************************************************)
\* Query points inside the grid bounds, x0 in [-2, 2] and y0 in [-2, 4]: the
\* ends of each range, 0, and the points 1/QueryDen either side of 0, which
\* lie between grid points.
QueryStep == Res \div QueryDen
QueryXs == {-2 * Res, 2 * Res} \cup {k * QueryStep : k \in -1..1}
QueryYs == {-2 * Res, 4 * Res} \cup {k * QueryStep : k \in -1..1}

NoCall == [called |-> FALSE]

\* Z as a call leaves it: Z.flat() and [...z_flat].sort() work on copies.
ZAfterCall_reversedInPlace == Reverse(Z)
ZAfterCall == Z

bivCreateVisualization ==
  /\ hdrPc = "off"
  /\ \E x_value \in QueryXs, y_value \in QueryYs,
        show_conditional_x \in BOOLEAN, show_conditional_y \in BOOLEAN :
       LET c == getConditionalDistributions(x_value, y_value)
       IN  /\ bivArgs' = [called |-> TRUE, x_value |-> x_value, y_value |-> y_value,
                          show_conditional_x |-> show_conditional_x,
                          show_conditional_y |-> show_conditional_y]
           /\ conditionals' = c
           /\ x_data' = IF show_conditional_x THEN c.x_given_y ELSE marginal_x
           /\ y_data' = IF show_conditional_y THEN c.y_given_x ELSE marginal_y
  /\ bivCalls' = IF bivCalls < MaxCalls THEN bivCalls + 1 ELSE bivCalls
  /\ Z' = ZAfterCall
  /\ UNCHANGED <<xgrid, ygrid, marginal_x, marginal_y>>
  /\ UNCHANGED <<cltVars, hdrVars>>

NextBiv == bivCreateVisualization

(***************************************************************************)
(* The highest-density-region block, bivariate-demo.js 129-143, on any     *)
(* matrix of positive integers.                                            *)
(***************************************************************************)
RECURSIVE Flat(_)
\* Z.flat()
Flat(m) == IF m = <<>> THEN <<>> ELSE m[1] \o Flat(Tail(m))

RECURSIVE IntSum(_)
IntSum(s) == IF s = <<>> THEN 0 ELSE IntSum(SubSeq(s, 1, Len(s) - 1)) + s[Len(s)]

\* d3.descending
descendingBefore_ascending(a, b) == a < b
descendingBefore(a, b) == a > b

RECURSIVE InsertDescending(_, _)
InsertDescending(s, v) ==
  IF s = <<>> THEN <<v>>
  ELSE IF descendingBefore(v, s[1]) THEN <<v>> \o s
  ELSE <<s[1]>> \o InsertDescending(Tail(s), v)

RECURSIVE SortDescending(_)
\* [...z_flat].sort(d3.descending)
SortDescending(s) ==
  IF s = <<>> THEN <<>>
  ELSE InsertDescending(SortDescending(SubSeq(s, 1, Len(s) - 1)), s[Len(s)])

\* cumulative_mass / total_mass >= 0.99
Crosses(cumulative_mass, total_mass) ==
  RLeq(Rat(99, 100), Rat(cumulative_mass, total_mass))

RECURSIVE hdrLoop(_, _, _, _)
\* The loop of lines 137-143 from element k on; 0 when it never breaks.
hdrLoop(sorted_z_values, k, cumulative_mass, total_mass) ==
  IF k > Len(sorted_z_values) THEN 0
  ELSE LET z_value == sorted_z_values[k]
           cum == cumulative_mass + z_value
       IN  IF Crosses(cum, total_mass) THEN z_value
           ELSE hdrLoop(sorted_z_values, k + 1, cum, total_mass)

hdrThresholdOf(m) ==
  LET z_flat == Flat(m)
      total_mass == IntSum(z_flat)
      sorted_z_values == SortDescending(z_flat)
  IN  hdrLoop(sorted_z_values, 1, 0, total_mass)

hdrBlock ==
  /\ hdrPc = "ready"
  /\ hdr_threshold' = hdrThresholdOf(Z)
  /\ hdrPc' = "done"
  /\ UNCHANGED <<cltVars, moduleArrays, bivCallVars>>

NextHdr == hdrBlock

(***************************************************************************)
(* Initial states and specifications.                                      *)
(***************************************************************************)
InitClt ==
  /\ cltPc = "idle"
  /\ options = [distName |-> NoName, sampleSize |-> 0, numSimulations |-> 1]
  /\ dist = Undefined
  /\ simIndex = 0
  /\ standardizedMeans = <<>>
  /\ zDivisions = {}
  /\ ecdfData = <<>>
  /\ cdfOverlay = {}

InitBivCalls ==
  /\ bivArgs = NoCall
  /\ conditionals = NoCall
  /\ x_data = <<>>
  /\ y_data = <<>>
  /\ bivCalls = 0

\* The module after bivariateDemo(d3) has run lines 7-42.
Init ==
  /\ InitClt
  /\ xgrid = xgrid0
  /\ ygrid = ygrid0
  /\ Z = ZOf(xgrid0, ygrid0)
  /\ marginal_x = marginal_x_of(ZOf(xgrid0, ygrid0), xgrid0, ygrid0, ygrid0[2] - ygrid0[1])
  /\ marginal_y = marginal_y_of(ZOf(xgrid0, ygrid0), xgrid0, ygrid0, xgrid0[2] - xgrid0[1])
  /\ InitBivCalls
  /\ hdrPc = "off"
  /\ hdr_threshold = 0

\* The HDR block entered with any matrix of positive cell values.
CellValues == {1, 2, HeavyCell}
InitHdr ==
  /\ InitClt
  /\ xgrid = [i \in 1..HdrCols |-> i - 1]
  /\ ygrid = [j \in 1..HdrRows |-> j - 1]
  /\ Z \in [1..HdrRows -> [1..HdrCols -> CellValues]]
  /\ marginal_x = <<>>
  /\ marginal_y = <<>>
  /\ InitBivCalls
  /\ hdrPc = "ready"
  /\ hdr_threshold = 0

SpecClt == Init /\ [][NextClt]_vars
SpecBiv == Init /\ [][NextBiv]_vars
SpecHdr == InitHdr /\ [][NextHdr]_vars

(***************************************************************************)
(* Properties of cltDemo.                                                  *)
(***************************************************************************)
CltFinished == cltPc \in {"returned", "threw"}

\* C1: for a registered distribution the simulation yields no standardized
\* mean when sampleSize = 0 or std = 0 and exactly numSimulations of them when
\* sampleSize >= 1 and std > 0 (never more than numSimulations), and line 84
\* never divides with sampleSize = 0 or std = 0.
C1_MeansCount ==
  /\ (cltPc = "returned" /\ distName \in DistNames) =>
       /\ sampleSize = 0 => Len(standardizedMeans) = 0
       /\ ~SurdPositive(dist.std) => Len(standardizedMeans) = 0
       /\ (sampleSize >= 1 /\ SurdPositive(dist.std)) =>
            Len(standardizedMeans) = numSimulations
  /\ (cltPc # "idle" /\ distName \in DistNames) =>
       Len(standardizedMeans) <= numSimulations
  /\ \A d \in zDivisions : d.sampleSize >= 1 /\ SurdPositive(d.std)

C1_Witness ==
  /\ cltPc = "returned"
  /\ distName \in DistNames
  /\ sampleSize >= 1
  /\ numSimulations >= 2
  /\ Len(standardizedMeans) = numSimulations
  /\ zDivisions # {}

\* C2: a call whose distName is not a registered name ends in an error and
\* renders nothing, whatever sampleSize >= 0 and numSimulations >= 1 are.
C2_UnknownNameFailsFast ==
  (CltFinished /\ distName \notin DistNames) => cltPc = "threw"

\* C3: the ECDF step sequence of m >= 1 standardized means has non-decreasing
\* y from 0 to 1 and non-decreasing x, and exactly m rises, each of height 1/m
\* and one at each input value; for no input it is empty.
C3_EcdfShape ==
  cltPc = "returned" =>
    LET m == Len(standardizedMeans)
        e == ecdfData
        rises == {k \in 1..(Len(e) - 1) : RLess(e[k].y, e[k + 1].y)}
    IN  /\ m = 0 => e = <<>>
        /\ m > 0 =>
             /\ Len(e) > 0
             /\ e[1].y = Zero
             /\ e[Len(e)].y = One
             /\ \A k \in 1..(Len(e) - 1) :
                  /\ RLeq(e[k].y, e[k + 1].y)
                  /\ ~zLess(e[k + 1].x, e[k].x)
             /\ Cardinality(rises) = m
             /\ \A k \in rises :
                  /\ RSub(e[k + 1].y, e[k].y) = Rat(1, m)
                  /\ e[k].x = e[k + 1].x
                  /\ \E i \in 1..m : standardizedMeans[i] = e[k].x
             /\ \A i \in 1..m :
                  Cardinality({k \in rises : e[k].x = standardizedMeans[i]})
                    = Cardinality({j \in 1..m : standardizedMeans[j] = standardizedMeans[i]})

C3_Witness ==
  /\ cltPc = "returned"
  /\ Len(standardizedMeans) >= 2
  /\ zLess(standardizedMeans[2], standardizedMeans[1])
  /\ Len(ecdfData) = 2 * Len(standardizedMeans) + 1

\* C4 as claimed: in exact arithmetic normal.erf(0) = 0 and normal.cdf(0) = 0.5.
C4_ErfZeroIsZero ==
  cltPc = "returned" =>
    /\ normal_erf(Zero) = Zero
    /\ \A pt \in cdfOverlay : pt.x = Zero => pt.y = Rat(1, 2)

\* C4 as amended: in exact arithmetic normal.erf(0) = 1e-9, the coefficients
\* a1..a5 adding up to 0.999999999, and normal.cdf(0) = 0.5000000005; both
\* are within 1.5e-7 of 0 and 0.5.
C4_ErfZeroIsOneNano ==
  cltPc = "returned" =>
    /\ normal_erf(Zero) = Rat(1, 1000000000)
    /\ RSub(Rat(15, 100000000), normal_erf(Zero))[1] > 0
    /\ \E pt \in cdfOverlay : pt.x = Zero
    /\ \A pt \in cdfOverlay :
         pt.x = Zero =>
           /\ pt.y = Rat(1000000001, 2000000000)
           /\ RSub(Rat(15, 100000000), RSub(pt.y, Rat(1, 2)))[1] > 0

C4_Witness ==
  /\ cltPc = "returned"
  /\ \E pt \in cdfOverlay : pt.x = Zero /\ pt.y # Rat(1, 2)

\* The first two moments of the law of a cascade sampler.
LawMean(law) == IF law = <<>> THEN Zero
                ELSE LET sumOver[k \in 0..Len(law)] ==
                           IF k = 0 THEN Zero
                           ELSE RAdd(sumOver[k - 1],
                                     RMul(RSub(law[k].hi, law[k].lo), law[k].value))
                     IN  sumOver[Len(law)]
LawMeanSq(law) == IF law = <<>> THEN Zero
                  ELSE LET sumOver[k \in 0..Len(law)] ==
                             IF k = 0 THEN Zero
                             ELSE RAdd(sumOver[k - 1],
                                       RMul(RSub(law[k].hi, law[k].lo),
                                            RMul(law[k].value, law[k].value)))
                       IN  sumOver[Len(law)]
MomentsMatch(d) ==
  LET law == ImpliedLaw(d)
  IN  /\ d.mean = LawMean(law)
      /\ SurdSquare(d.std) = RSub(LawMeanSq(law), RMul(d.mean, d.mean))
      /\ \A u \in RandomValues :
           \E k \in 1..Len(law) :
             /\ RLeq(law[k].lo, u) /\ RLess(u, law[k].hi)
             /\ random(d, u) = Plain(law[k].value)

\* C7: for Bernoulli and Skewed Discrete the declared mean is SUM p*x and the
\* declared std squared is SUM p*x^2 - mean^2 over the law of the entry's own
\* sampler: 0.5 and 0.25 for Bernoulli, 1.2 and 8.76 for Skewed Discrete.
C7_DiscreteMoments ==
  /\ MomentsMatch(distributions["Bernoulli"])
  /\ MomentsMatch(distributions["Skewed Discrete"])
  /\ distributions["Bernoulli"].mean = Rat(1, 2)
  /\ SurdSquare(distributions["Bernoulli"].std) = Rat(25, 100)
  /\ distributions["Skewed Discrete"].mean = Rat(12, 10)
  /\ SurdSquare(distributions["Skewed Discrete"].std) = Rat(876, 100)
  /\ (dist.defined /\ dist.random.kind = "cascade") => MomentsMatch(dist)

C7_Witness ==
  /\ cltPc = "returned"
  /\ distName = "Skewed Discrete"
  /\ \E i \in 1..Len(standardizedMeans) : standardizedMeans[i].sum = Plain(Rat(11, 1))
  /\ \E i \in 1..Len(standardizedMeans) : standardizedMeans[i].sum = Plain(Rat(0, 1))

(***************************************************************************)
(* Properties of bivariateDemo.                                            *)
(***************************************************************************)
RiemannX == VSum([i \in 1..Len(marginal_x) |-> VTimes(marginal_x[i], dx)])
RiemannY == VSum([j \in 1..Len(marginal_y) |-> VTimes(marginal_y[j], dy)])
RiemannJoint == VTimes(VTimes(VSum([r \in 1..Len(Z) |-> VSum(Z[r])]), dx), dy)

\* C5: the Riemann sums of marginal_x over the x-grid and of marginal_y over
\* the y-grid both equal the double Riemann sum of Z.
C5_MarginalMass ==
  /\ Len(marginal_x) = Len(xgrid)
  /\ Len(marginal_y) = Len(ygrid)
  /\ VEq(RiemannX, RiemannJoint)
  /\ VEq(RiemannY, RiemannJoint)
  /\ VEq(RiemannX, RiemannY)

C5_Witness ==
  /\ bivArgs.called
  /\ ~bivArgs.show_conditional_x /\ ~bivArgs.show_conditional_y
  /\ x_data = marginal_x /\ y_data = marginal_y
  /\ Len(Z) = Len(ygrid) /\ Len(ygrid) > Len(xgrid)
  /\ VPositive(RiemannJoint)

\* C6: for a query point inside the grid bounds, x_given_y has one value per
\* x-grid point and y_given_x one per y-grid point, their Riemann sums are
\* both 1, and the sums they were divided by are positive.
C6_ConditionalsIntegrateToOne ==
  bivArgs.called =>
    LET cx == conditionals.x_given_y
        cy == conditionals.y_given_x
    IN  /\ Len(cx) = Len(xgrid)
        /\ Len(cy) = Len(ygrid)
        /\ \A i \in 1..Len(cx) : VPositive(cx[i].den)
        /\ \A j \in 1..Len(cy) : VPositive(cy[j].den)
        /\ QIsOne(QSum([i \in 1..Len(cx) |-> QTimes(cx[i], dx)]))
        /\ QIsOne(QSum([j \in 1..Len(cy) |-> QTimes(cy[j], dy)]))

C6_Witness ==
  /\ bivArgs.called
  /\ \A i \in 1..Len(xgrid) : xgrid[i] # bivArgs.x_value
  /\ \A j \in 1..Len(ygrid) : ygrid[j] # bivArgs.y_value
  /\ bivArgs.show_conditional_x /\ bivArgs.show_conditional_y
  /\ x_data = conditionals.x_given_y

\* C8: calls leave xgrid, ygrid, Z, marginal_x and marginal_y as module
\* creation made them, so the conditionals of a call are those of its
\* arguments alone.
C8_ModuleArraysUntouched ==
  /\ xgrid = xgrid0
  /\ ygrid = ygrid0
  /\ Z = ZOf(xgrid0, ygrid0)
  /\ marginal_x = marginal_x_of(ZOf(xgrid0, ygrid0), xgrid0, ygrid0, ygrid0[2] - ygrid0[1])
  /\ marginal_y = marginal_y_of(ZOf(xgrid0, ygrid0), xgrid0, ygrid0, xgrid0[2] - xgrid0[1])
  /\ bivArgs.called =>
       conditionals = getConditionalDistributions(bivArgs.x_value, bivArgs.y_value)

C8_Witness ==
  /\ bivCalls >= 2
  /\ bivArgs.called
  /\ bivArgs.show_conditional_x /\ ~bivArgs.show_conditional_y
  /\ Z = ZOf(xgrid0, ygrid0)

\* C9: row r of Z holds y = ygrid[length-1-r], yet marginal_y[j] is dx times
\* the sum over the x-grid of exp(f(xgrid[i], ygrid[j])), and marginal_x[i] is
\* dy times the sum over the y-grid of exp(f(xgrid[i], ygrid[j])).
C9_MarginalAlignment ==
  /\ \A r \in 1..Len(Z) : \A c \in 1..Len(xgrid) :
       Z[r][c] = VExp(f(xgrid[c], ygrid[Len(ygrid) + 1 - r]))
  /\ \A j \in 1..Len(ygrid) :
       VEq(marginal_y[j],
           VTimes(VSum([i \in 1..Len(xgrid) |-> VExp(f(xgrid[i], ygrid[j]))]), dx))
  /\ \A i \in 1..Len(xgrid) :
       VEq(marginal_x[i],
           VTimes(VSum([j \in 1..Len(ygrid) |-> VExp(f(xgrid[i], ygrid[j]))]), dy))

C9_Witness ==
  /\ bivArgs.called
  /\ ~bivArgs.show_conditional_y
  /\ y_data = marginal_y
  /\ ~VEq(marginal_y[1], marginal_y[Len(marginal_y)])
  /\ Z[1][1] = VExp(f(xgrid[1], ygrid[Len(ygrid)]))

(***************************************************************************)
(* Property of the HDR block.                                              *)
(***************************************************************************)
MassWhere(cells, Keep(_)) == IntSum(SelectSeq(cells, Keep))

\* C10: the threshold t is the value of a cell of Z, the cells with value
\* >= t carry at least 99% of the total mass and the cells with value > t
\* carry less than 99%, ties included.
C10_HdrThreshold ==
  hdrPc = "done" =>
    LET cells == Flat(Z)
        t == hdr_threshold
        total == IntSum(cells)
        atLeast == MassWhere(cells, LAMBDA v : v >= t)
        above == MassWhere(cells, LAMBDA v : v > t)
    IN  /\ \E k \in 1..Len(cells) : cells[k] = t
        /\ 100 * atLeast >= 99 * total
        /\ 100 * above < 99 * total

C10_Witness ==
  /\ hdrPc = "done"
  /\ hdr_threshold = HeavyCell
  /\ Cardinality({k \in 1..Len(Flat(Z)) : Flat(Z)[k] = hdr_threshold}) >= 2
  /\ \E k \in 1..Len(Flat(Z)) : Flat(Z)[k] < hdr_threshold
  /\ \E r \in 1..Len(Z) : \E c \in 1..Len(Z[r]) : Z[r][c] < Z[1][1]

====
